---- MODULE Spec2Model ----
(***************************************************************************)
(* Seat reservation lifecycle of the cinema booking backend:                *)
(* SeatService, SeatController, BookingService, the expiry timer of         *)
(* WebSocketManager and the SeatCleanupJob sweeper, over one showtime.      *)
(* Time is counted in minutes.                                              *)
(***************************************************************************)
EXTENDS Integers, FiniteSets, Sequences, TLC

\* ------------------------------------------------------------------ bounds
NumSeats == 2
MaxBookings == 2
MaxTime == 17

\* ------------------------------------------------------- program constants
BOOKING_TIMEOUT_MINUTES == 15
RESERVE_MINUTES == 15
CLEANUP_INTERVAL == 1
CANCEL_CUTOFF_MINUTES == 180

SeatIds == 1..NumSeats
BookingIds == 1..MaxBookings
\* two concurrent request slots
Procs == {1, 2}
\* the authenticated users
Users == {1}

\* absent optional fields of a seat document
NoBooking == 0
NoDate == 0 - 1
NoUser == 0

SeatTypes == {"standard", "premium", "vip"}

\* seatType of the seat rows of the showtime (fixed when the rows are cloned)
seatType(s) ==
  IF s % 3 = 1 THEN "standard" ELSE IF s % 3 = 2 THEN "premium" ELSE "vip"

\* the price tables the showtime can carry
PriceTables ==
  { [standard |-> 10, premium |-> 15, vip |-> 20],
    [standard |-> 12, premium |-> 18, vip |-> 25] }

InitialPrice == [standard |-> 10, premium |-> 15, vip |-> 20]

\* the showtime whose seat rows the model carries
HomeShowtime == 1
\* a deactivated showtime, a showtime that starts early, an id with no document
InactiveShowtime == 2
EarlyShowtime == 3
MissingShowtime == 4
ShowtimeIds == {HomeShowtime, InactiveShowtime, EarlyShowtime, MissingShowtime}

\* start times, in minutes of the model's clock
HomeStart == 195
EarlyStart == 15

\* the Showtime collection
Showtime(sid) ==
  [exists |-> sid # MissingShowtime,
   isActive |-> sid # InactiveShowtime,
   startTime |-> IF sid = EarlyShowtime THEN EarlyStart ELSE HomeStart]

\* a seat id that names no seat row
UnknownSeat == NumSeats + 1
RequestSeatIds == SeatIds \cup {UnknownSeat}

\* the users that send requests: the booking owners and one other user
Callers == Users \cup {2}

VARIABLES
  seats,          \* Seat collection: seat id -> [status, bookingId, expiresAt]
  bookings,       \* Booking collection: booking id -> document
  nextId,         \* next fresh booking _id
  price,          \* showtime.price
  now,            \* wall clock, minutes
  swept,          \* whether the cleanup job has run its pass of the current minute
  sweep,          \* the running releaseExpiredSeats pass
  clients,        \* WebSocketManager.clients (user ids)
  timers,         \* client.bookingTimers: booking id -> deadline of the terminal timer
  expiry,         \* position of a fired terminal timer callback, per booking
  proc,           \* in-flight requests
  omitUndefined,  \* whether the update cast drops undefined keys (else stores null)
  rt,             \* real-time layer: sockets, registered clients, rooms, last delivery
  catalog,        \* showtimes of one screen and the seat documents of that screen
  ev              \* the call that acted or returned in the last step

vars == << seats, bookings, nextId, price, now, swept, sweep, clients, timers,
           expiry, proc, omitUndefined, rt, catalog, ev >>

Avail == [status |-> "available", bookingId |-> NoBooking, expiresAt |-> NoDate]

NoBookingDoc ==
  [exists |-> FALSE, userId |-> NoUser, showtimeId |-> HomeShowtime,
   seats |-> {}, totalAmount |-> 0,
   paymentStatus |-> "pending", bookingStatus |-> "reserved",
   transactionId |-> 0, bookedAt |-> NoDate]

IdleProc ==
  [op |-> "idle", pc |-> "idle", user |-> NoUser, sid |-> HomeShowtime,
   req |-> {}, b |-> NoBooking,
   exp |-> NoDate, held |-> {}, snap |-> InitialPrice, total |-> 0]

NoEv == [op |-> "none", res |-> "none", b |-> NoBooking, arg |-> 0]

\* op returned res for booking b; arg is the number of seats a failed
\* createBooking rolled back
Ev(op, res, b, arg) == [op |-> op, res |-> res, b |-> b, arg |-> arg]

IdleSweep == [pc |-> "idle", todo |-> {}]

Min(S) == CHOOSE x \in S : \A y \in S : x <= y

\* ------------------------------------------------------- real-time layer

\* sockets of the ws server (WebSocketManager.ts) and of the socket.io server
\* with showtime rooms
WsConns == {1, 2}

IoSockets == {3, 4}

\* which WebSocketManager the services report seat changes to: the one with
\* showtime rooms, or the one that broadcasts to every registered client
Managers == {"rooms", "broadcast"}

\* what a connection presents: no token, a token that does not verify, a
\* verified token whose payload has no id, a verified token of user 1
Tokens == {"absent", "forged", "noid", "user1"}

\* process.env.ACCESS_TOKEN_SECRET, and the values process.env.WS_TOKEN_SECRET
\* can have: unset, the access secret, a secret of its own
ACCESS_TOKEN_SECRET == "k1"
WsSecretEnv == {"", "k1", "k2"}

\* WS_TOKEN_SECRET = process.env.WS_TOKEN_SECRET || ACCESS_TOKEN_SECRET
WS_TOKEN_SECRET(env) == IF env = "" THEN ACCESS_TOKEN_SECRET ELSE env

\* expiresIn of the access token ("1d") and of the WebSocket token ("24h")
ACCESS_TOKEN_MINUTES == 1440
WS_TOKEN_MINUTES == 1440

\* jwt.sign(payload, key, {expiresIn}) at minute iat
JwtSign(payload, key, iat, minutes) ==
  [payload |-> payload, key |-> key, exp |-> iat + minutes]

\* jwt.verify(token, key): the payload, or an error (null to the callers)
JwtVerify(token, key, t) ==
  IF token.key = key /\ t < token.exp THEN token.payload ELSE "null"

\* generateAccessToken(user) and generateWebSocketToken(user), issued at start
generateAccessToken(payload) ==
  JwtSign(payload, ACCESS_TOKEN_SECRET, 0, ACCESS_TOKEN_MINUTES)
generateWebSocketToken(payload, env) ==
  JwtSign(payload, WS_TOKEN_SECRET(env), 0, WS_TOKEN_MINUTES)

\* what a client can present besides the above: the WebSocket token issued to
\* user 1, and one issued a lifetime ago
WsTokens == Tokens \cup {"ws1", "old1"}

\* the token a client presents under each name
Presented(tok, env) ==
  IF tok = "forged" THEN JwtSign("payload1", "k0", 0, ACCESS_TOKEN_MINUTES)
  ELSE IF tok = "noid" THEN generateAccessToken("payload")
  ELSE IF tok = "ws1" THEN generateWebSocketToken("payload1", env)
  ELSE IF tok = "old1"
    THEN JwtSign("payload1", WS_TOKEN_SECRET(env), 0 - WS_TOKEN_MINUTES,
                 WS_TOKEN_MINUTES)
    ELSE generateAccessToken("payload1")

\* verifyAccessToken: the decoded payload, or null
verifyAccessToken(tok) ==
  IF tok = "absent" THEN "null"
  ELSE JwtVerify(Presented(tok, rt.env), ACCESS_TOKEN_SECRET, now)

\* decoded.id of a payload
DecodedId(decoded) == IF decoded = "payload1" THEN 1 ELSE NoUser

\* the rooms a socket can join
Topics == {HomeShowtime, EarlyShowtime}

ClosedWs == [state |-> "closed", user |-> NoUser]

ClosedIo == [open |-> FALSE, token |-> "absent", rooms |-> {}]

NoRealtime(m) ==
  [manager |-> m,
   ws |-> [c \in WsConns |-> ClosedWs],
   client |-> [u \in Users |-> 0],
   io |-> [k \in IoSockets |-> ClosedIo],
   env |-> "",
   issued |-> {},
   live |-> [b \in BookingIds |-> 0],
   countdown |-> {},
   hist |-> [b \in BookingIds |-> << >>],
   sent |-> {}]

Msg(type, about, to) == [type |-> type, about |-> about, to |-> to]

\* the sockets a handler wrote to in its run; a handler that reaches no socket
\* leaves the record of the last deliveries alone
Emit(r, msgs) ==
  LET out == {m \in msgs : m.to # {}} IN
    IF out = {} THEN r ELSE [r EXCEPT !.sent = out]

\* sendToUser: the one registered socket of the user, if it is open
UserSockets(r, u) ==
  IF u \in Users /\ r.client[u] # 0 /\ r.ws[r.client[u]].state = "open"
    THEN {r.client[u]} ELSE {}

\* broadcastToAll: the open socket of every registered client
AllClientSockets(r) == UNION {UserSockets(r, u) : u \in Users}

\* io.to(`showtime-${showtimeId}`): the sockets that joined the room
RoomSockets(r, sid) == {k \in IoSockets : r.io[k].open /\ sid \in r.io[k].rooms}

\* notifySeatStatusChanged (rooms) or notifySeatsUpdated (broadcast)
SeatMsg(r, sid) ==
  IF r.manager = "rooms"
    THEN Msg("SEAT_STATUS_CHANGED", sid, RoomSockets(r, sid))
    ELSE Msg("seats_updated", sid, AllClientSockets(r))

\* notifyBookingCreated / Confirmed / Cancelled (rooms); the broadcasting
\* manager has only notifySeatsUpdated
BookingMsg(r, type, sid) ==
  IF r.manager = "rooms"
    THEN Msg(type, sid, RoomSockets(r, sid))
    ELSE Msg("seats_updated", sid, AllClientSockets(r))

\* sendToUser(userId, {type, bookingId})
DirectMsg(r, type, u, b) == Msg(type, b, UserSockets(r, u))

\* ------------------------------------------------------ showtime catalogue

MaxShows == 3

ShowIds == 1..MaxShows

\* owner of the seat documents the screen was set up with
ScreenSeats == 0

DocOwners == {ScreenSeats} \cup ShowIds

MovieDuration == 90

CLEANING_MINUTES == 30

StartTimes == {200, 260, 320}

NoShow == [exists |-> FALSE, isActive |-> FALSE, startTime |-> 0, endTime |-> 0]

EmptyCatalog ==
  [shows |-> [i \in ShowIds |-> NoShow],
   docs |-> [o \in DocOwners |->
               [s \in SeatIds |-> IF o = ScreenSeats THEN 1 ELSE 0]]]

Init ==
  /\ seats = [s \in SeatIds |-> Avail]
  /\ bookings = [b \in BookingIds |-> NoBookingDoc]
  /\ nextId = 1
  /\ price = InitialPrice
  /\ now = 0
  /\ swept = TRUE
  /\ sweep = IdleSweep
  /\ clients = {}
  /\ timers = [b \in BookingIds |-> NoDate]
  /\ expiry = [b \in BookingIds |-> "idle"]
  /\ proc = [p \in Procs |-> IdleProc]
  /\ omitUndefined \in BOOLEAN
  /\ rt \in {[NoRealtime(m) EXCEPT !.env = e] : m \in Managers, e \in WsSecretEnv}
  /\ catalog = EmptyCatalog
  /\ ev = NoEv

\* --------------------------------------------------- SeatService (atomic)

\* SeatService.bookSeat: findOneAndUpdate by id, no condition on status
BookSeat(s, b) ==
  /\ seats' = [seats EXCEPT ![s] =
                 [status |-> "booked", bookingId |-> b, expiresAt |-> NoDate]]
  /\ ev' = NoEv
  /\ rt' = Emit(rt, {SeatMsg(rt, HomeShowtime)})
  /\ UNCHANGED << bookings, nextId, price, now, swept, sweep, clients, timers,
                  expiry, proc, omitUndefined, catalog >>

\* SeatService.releaseSeat: findOneAndUpdate by id, no condition on status
ReleaseSeat(s) ==
  /\ seats' = [seats EXCEPT ![s] = Avail]
  /\ ev' = NoEv
  /\ rt' = Emit(rt, {SeatMsg(rt, HomeShowtime)})
  /\ UNCHANGED << bookings, nextId, price, now, swept, sweep, clients, timers,
                  expiry, proc, omitUndefined, catalog >>

\* SeatService.reserveSeat, first half: findOne, the status check, and the
\* in-memory assignment of status and expiresAt
ReserveSeatFind(p, s) ==
  /\ proc[p].op = "idle"
  /\ IF seats[s].status # "available"
       THEN /\ ev' = NoEv
            /\ UNCHANGED proc
       ELSE /\ proc' = [proc EXCEPT ![p] =
                          [IdleProc EXCEPT !.op = "reserveSeat", !.pc = "save",
                                           !.req = {s},
                                           !.exp = now + RESERVE_MINUTES]]
            /\ ev' = NoEv
  /\ UNCHANGED << seats, bookings, nextId, price, now, swept, sweep, clients,
                  timers, expiry, omitUndefined, rt, catalog >>

\* SeatService.reserveSeat, second half: seat.save() writes the modified paths
ReserveSeatSave(p) ==
  /\ proc[p].op = "reserveSeat" /\ proc[p].pc = "save"
  /\ LET s == Min(proc[p].req) IN
       /\ seats' = [seats EXCEPT ![s].status = "reserved",
                                 ![s].expiresAt = proc[p].exp]
       /\ ev' = NoEv
  /\ proc' = [proc EXCEPT ![p] = IdleProc]
  /\ rt' = Emit(rt, {SeatMsg(rt, HomeShowtime)})
  /\ UNCHANGED << bookings, nextId, price, now, swept, sweep, clients, timers,
                  expiry, omitUndefined, catalog >>

\* ------------------------------------------------ SeatController endpoints

\* the value an update leaves in a field whose key was passed as undefined
Undefined(old) == IF omitUndefined THEN old ELSE NoDate

UndefinedId(old) == IF omitUndefined THEN old ELSE NoBooking

\* POST /seats/reserve: updateSeat(seatId, {status, expiresAt})
CtlReserveSeat(s) ==
  /\ seats' = [seats EXCEPT ![s].status = "reserved",
                            ![s].expiresAt = now + RESERVE_MINUTES]
  /\ ev' = NoEv
  /\ rt' = Emit(rt, {SeatMsg(rt, HomeShowtime)})
  /\ UNCHANGED << bookings, nextId, price, now, swept, sweep, clients, timers,
                  expiry, proc, omitUndefined, catalog >>

\* POST /seats/book: updateSeat(seatId, {status, bookingId, expiresAt: undefined})
CtlBookSeat(s, b) ==
  /\ seats' = [seats EXCEPT ![s] =
                 [status |-> "booked", bookingId |-> b,
                  expiresAt |-> Undefined(seats[s].expiresAt)]]
  /\ ev' = NoEv
  /\ rt' = Emit(rt, {SeatMsg(rt, HomeShowtime)})
  /\ UNCHANGED << bookings, nextId, price, now, swept, sweep, clients, timers,
                  expiry, proc, omitUndefined, catalog >>

\* POST /seats/release: updateSeat(seatId, {status, bookingId: undefined,
\* expiresAt: undefined})
CtlReleaseSeat(s) ==
  /\ seats' = [seats EXCEPT ![s] =
                 [status |-> "available",
                  bookingId |-> UndefinedId(seats[s].bookingId),
                  expiresAt |-> Undefined(seats[s].expiresAt)]]
  /\ ev' = NoEv
  /\ rt' = Emit(rt, {SeatMsg(rt, HomeShowtime)})
  /\ UNCHANGED << bookings, nextId, price, now, swept, sweep, clients, timers,
                  expiry, proc, omitUndefined, catalog >>

SeatOps ==
  \/ \E s \in SeatIds, b \in BookingIds : BookSeat(s, b)
  \/ \E s \in SeatIds : ReleaseSeat(s)
  \/ \E p \in Procs, s \in SeatIds : ReserveSeatFind(p, s)
  \/ \E p \in Procs : ReserveSeatSave(p)
  \/ \E s \in SeatIds : CtlReserveSeat(s)
  \/ \E s \in SeatIds, b \in BookingIds : CtlBookSeat(s, b)
  \/ \E s \in SeatIds : CtlReleaseSeat(s)

\* ------------------------------------------------------- BookingService

\* TicketFactory.createTicket(seatType, basePrice).price
TicketPrice(type, basePrice) == basePrice

\* seatData ? seatData.seatType : 'standard'
SeatTypeOf(s) == IF s \in SeatIds THEN seatType(s) ELSE "standard"

\* a pricing loop that ignores the seat class
TotalAmountStandard(S, showtimePrice) ==
  Cardinality(S) * TicketPrice("standard", showtimePrice.standard)

\* the pricing loop of createBooking over the requested seat ids
RECURSIVE TotalAmount(_, _)
TotalAmount(S, showtimePrice) ==
  IF S = {} THEN 0
  ELSE LET s == Min(S) IN
         TicketPrice(SeatTypeOf(s), showtimePrice[SeatTypeOf(s)])
           + TotalAmount(S \ {s}, showtimePrice)

\* WebSocketManager.startBookingTimer(userId, bookingId, expirationMinutes):
\* no client, no timer
StartBookingTimerFor(u, b, N) ==
  IF u \in clients THEN [timers EXCEPT ![b] = now + N] ELSE timers

\* WebSocketManager.startBookingTimer(userId, bookingId)
StartBookingTimer(u, b) == StartBookingTimerFor(u, b, BOOKING_TIMEOUT_MINUTES)

\* a stopBookingTimer that clears the timer of every booking
StopEveryTimer(u, b) ==
  IF u \in clients THEN [c \in BookingIds |-> NoDate] ELSE timers

\* a countdown that sets every warning, whatever the length of the hold
EveryOffset(N) == {10, 5, 2, 1}

\* WebSocketManager.stopBookingTimer(userId, bookingId)
StopBookingTimer(u, b) ==
  IF u \in clients THEN [timers EXCEPT ![b] = NoDate] ELSE timers

\* const countdownMinutes = [10, 5, 2, 1], and those below expirationMinutes
COUNTDOWN_MINUTES == {10, 5, 2, 1}
Offsets(N) == {m \in COUNTDOWN_MINUTES : m < N}

\* the timeouts of the process behind bookingTimers. rt.live counts the
\* terminal timeouts of a booking that were set and neither cleared nor fired;
\* rt.countdown holds the pending booking_expiring timeouts, which no map
\* refers to. stopBookingTimer clears the terminal timeout the map holds.
StopTimeouts(r, u, b) ==
  IF u \in clients /\ timers[b] # NoDate
    THEN [r EXCEPT !.live[b] = @ - 1] ELSE r

\* a startBookingTimer that sets its timeouts without stopBookingTimer first
StartTimeoutsNoStop(r, u, b, N) ==
  IF u \notin clients THEN r
  ELSE [r EXCEPT
          !.live[b] = @ + 1,
          !.countdown = @ \cup
             IF u \in Users /\ r.client[u] # 0
               THEN {[b |-> b, left |-> m, at |-> now + N - m] : m \in Offsets(N)}
               ELSE {}]

\* startBookingTimer: stopBookingTimer, then one setTimeout per countdown
\* minute below N and the terminal setTimeout. The countdown callbacks only
\* call sendToUser; they are followed for the clients whose socket the model
\* follows (rt.client).
StartTimeouts(r, u, b, N) ==
  IF u \notin clients THEN r
  ELSE LET s == StopTimeouts(r, u, b) IN
       [s EXCEPT
          !.live[b] = @ + 1,
          !.countdown = @ \cup
             IF u \in Users /\ r.client[u] # 0
               THEN {[b |-> b, left |-> m, at |-> now + N - m] : m \in Offsets(N)}
               ELSE {}]

\* unregisterClient: clearTimeout for every entry of the client's bookingTimers
UnregisterTimeouts(r, u) ==
  [r EXCEPT !.live = [b \in BookingIds |->
                        IF /\ u \in clients
                           /\ bookings[b].exists /\ bookings[b].userId = u
                           /\ timers[b] # NoDate
                          THEN r.live[b] - 1 ELSE r.live[b]]]

\* sendToUser of a booking_expiring (minutesLeft) or booking_expired (0) event:
\* rt.hist keeps, per booking, what reached the owner, in order
Delivered(r, u, b, left) ==
  IF UserSockets(r, u) # {} THEN [r EXCEPT !.hist[b] = Append(@, left)] ELSE r

\* createBookings that passed validation and have not drawn their _id yet
Unnumbered == {q \in Procs : proc[q].op = "createBooking" /\ proc[q].b = NoBooking}

\* a request validation that accepts an empty seat list
ValidRequestAnySeats(u, sid, req) == u # NoUser /\ sid \in ShowtimeIds

\* createBooking: userId, showtimeId and seatIds.length are all present
ValidRequest(u, sid, req) == u # NoUser /\ sid \in ShowtimeIds /\ req # {}

\* a showtime check that does not look at isActive
ShowtimeErrorIgnoringActive(sid, t) ==
  IF ~ Showtime(sid).exists THEN "NotFound"
  ELSE IF Showtime(sid).startTime < t THEN "Invalid"
  ELSE "none"

\* createBooking: the checks on the loaded showtime, at time t
ShowtimeError(sid, t) ==
  IF ~ Showtime(sid).exists THEN "NotFound"
  ELSE IF ~ Showtime(sid).isActive THEN "Invalid"
  ELSE IF Showtime(sid).startTime < t THEN "Invalid"
  ELSE "none"

\* the seat rows among S that belong to showtime sid
InShowtime(sid, S) == IF sid = HomeShowtime THEN S \cap SeatIds ELSE {}

\* createBooking: input validation and the showtime load
CreateBookingStart(p, u, sid, req) ==
  /\ proc[p].op = "idle"
  /\ nextId + Cardinality(Unnumbered) <= MaxBookings
  /\ IF ~ ValidRequest(u, sid, req)
       THEN /\ ev' = Ev("createBooking", "MissingFields", NoBooking, 0)
            /\ UNCHANGED proc
       ELSE IF ShowtimeError(sid, now) # "none"
         THEN /\ ev' = Ev("createBooking", ShowtimeError(sid, now), NoBooking, 0)
              /\ UNCHANGED proc
         ELSE /\ proc' = [proc EXCEPT ![p] =
                            [IdleProc EXCEPT !.op = "createBooking", !.pc = "check",
                                             !.user = u, !.sid = sid, !.req = req,
                                             !.snap = price]]
              /\ ev' = NoEv
  /\ UNCHANGED << seats, bookings, nextId, price, now, swept, sweep, clients,
                  timers, expiry, omitUndefined, rt, catalog >>

\* createBooking: the availability query, the pricing loop and the expiry date
CreateBookingCheck(p) ==
  /\ proc[p].op = "createBooking" /\ proc[p].pc = "check"
  /\ IF \E s \in InShowtime(proc[p].sid, proc[p].req) :
          seats[s].status # "available"
       THEN /\ proc' = [proc EXCEPT ![p] = IdleProc]
            /\ ev' = Ev("createBooking", "SeatUnavailable", NoBooking, 0)
            /\ UNCHANGED nextId
       ELSE /\ proc' = [proc EXCEPT ![p].pc = IF proc[p].req = {} THEN "persist"
                                              ELSE "hold",
                                    ![p].b = nextId,
                                    ![p].total = TotalAmount(proc[p].req, proc[p].snap),
                                    ![p].exp = now + BOOKING_TIMEOUT_MINUTES]
            /\ nextId' = nextId + 1
            /\ ev' = NoEv
  /\ UNCHANGED << seats, bookings, price, now, swept, sweep, clients, timers,
                  expiry, omitUndefined, rt, catalog >>

\* BookingRepository.create, hold of the next seat: available -> reserved
\* by compare-and-swap on status
CreateBookingHold(p) ==
  /\ proc[p].op = "createBooking" /\ proc[p].pc = "hold"
  /\ LET s == Min(proc[p].req \ proc[p].held) IN
       IF s \in SeatIds /\ seats[s].status = "available"
         THEN /\ seats' = [seats EXCEPT ![s] =
                             [status |-> "reserved", bookingId |-> proc[p].b,
                              expiresAt |-> now + BOOKING_TIMEOUT_MINUTES]]
              /\ proc' = [proc EXCEPT
                            ![p].held = @ \cup {s},
                            ![p].pc = IF proc[p].req \ proc[p].held = {s}
                                        THEN "persist" ELSE "hold"]
         ELSE /\ proc' = [proc EXCEPT ![p].pc = "rollback"]
              /\ UNCHANGED seats
  /\ ev' = NoEv
  /\ UNCHANGED << bookings, nextId, price, now, swept, sweep, clients, timers,
                  expiry, omitUndefined, rt, catalog >>

\* the seats a failing create still holds
StillHeld(p) ==
  {s \in proc[p].held :
     seats[s].status = "reserved" /\ seats[s].bookingId = proc[p].b}

\* a failing create that returns the error without its compensating release
CreateBookingNoRollback(p) ==
  /\ proc[p].op = "createBooking" /\ proc[p].pc = "rollback"
  /\ ev' = Ev("createBooking", "SeatUnavailable", proc[p].b, 0)
  /\ proc' = [proc EXCEPT ![p] = IdleProc]
  /\ UNCHANGED << seats, bookings, nextId, price, now, swept, sweep, clients,
                  timers, expiry, omitUndefined, rt, catalog >>

\* BookingRepository.create, compensating release of the seats already flipped,
\* after a lost seat (rollback) or a document the pre-save hook refused (reject)
CreateBookingRollback(p) ==
  /\ proc[p].op = "createBooking" /\ proc[p].pc \in {"rollback", "reject"}
  /\ seats' = [s \in SeatIds |-> IF s \in StillHeld(p) THEN Avail ELSE seats[s]]
  /\ ev' = Ev("createBooking",
              IF proc[p].pc = "rollback" THEN "SeatUnavailable" ELSE "Invalid",
              proc[p].b, Cardinality(StillHeld(p)))
  /\ proc' = [proc EXCEPT ![p] = IdleProc]
  /\ UNCHANGED << bookings, nextId, price, now, swept, sweep, clients, timers,
                  expiry, omitUndefined, rt, catalog >>

\* a pre-save hook that accepts every seat list
HookAcceptsAll(sid, S) == TRUE

\* BookingSchema.pre('save'): as many seats of the booking's showtime are found
\* as the seat list names
SameShowtime(sid, S) == Cardinality(InShowtime(sid, S)) = Cardinality(S)

\* BookingRepository.create runs the pre-save hook and persists the booking;
\* then the booking.created notification, then startBookingTimer
CreateBookingPersist(p, notified) ==
  /\ proc[p].op = "createBooking" /\ proc[p].pc = "persist"
  /\ LET b == proc[p].b IN
       IF ~ SameShowtime(proc[p].sid, proc[p].req)
         THEN /\ proc' = [proc EXCEPT ![p].pc = "reject"]
              /\ ev' = NoEv
              /\ UNCHANGED << bookings, timers >>
         ELSE /\ bookings' = [bookings EXCEPT ![b] =
                                [exists |-> TRUE, userId |-> proc[p].user,
                                 showtimeId |-> proc[p].sid,
                                 seats |-> proc[p].req,
                                 totalAmount |-> proc[p].total,
                                 paymentStatus |-> "pending",
                                 bookingStatus |-> "reserved",
                                 transactionId |-> 0,
                                 bookedAt |-> proc[p].exp - BOOKING_TIMEOUT_MINUTES]]
              /\ IF notified
                   THEN /\ timers' = StartBookingTimer(proc[p].user, b)
                        /\ ev' = Ev("createBooking", "ok", b, 0)
                   ELSE /\ timers' = timers
                        /\ ev' = Ev("createBooking", "NotifyFailed", b, 0)
              /\ proc' = [proc EXCEPT ![p] = IdleProc]
  /\ rt' = IF ev'.res = "ok"
             THEN Emit(StartTimeouts(rt, proc[p].user, proc[p].b,
                                     BOOKING_TIMEOUT_MINUTES),
                       {DirectMsg(rt, "booking_reserved", proc[p].user, proc[p].b),
                        BookingMsg(rt, "BOOKING_CREATED", proc[p].sid)})
             ELSE rt
  /\ UNCHANGED << seats, nextId, price, now, swept, sweep, clients, expiry,
                  omitUndefined, catalog >>

\* an already-processed check that lets completed bookings through
NeverProcessed(doc) == FALSE

\* an already-processed check that refuses every booking that is not pending
NotPending(doc) == doc.paymentStatus # "pending"

\* processPayment: booking.paymentStatus === 'completed'
AlreadyProcessed(doc) == doc.paymentStatus = "completed"

\* processPayment: load the booking and the already-processed check
ProcessPaymentLoad(p, b) ==
  /\ proc[p].op = "idle"
  /\ IF ~bookings[b].exists
       THEN /\ ev' = Ev("processPayment", "NotFound", b, 0)
            /\ UNCHANGED proc
       ELSE IF AlreadyProcessed(bookings[b])
         THEN /\ ev' = Ev("processPayment", "AlreadyProcessed", b, 0)
              /\ UNCHANGED proc
         ELSE /\ proc' = [proc EXCEPT ![p] =
                            [IdleProc EXCEPT !.op = "processPayment", !.pc = "pay",
                                             !.b = b, !.user = bookings[b].userId,
                                             !.total = bookings[b].totalAmount]]
              /\ ev' = NoEv
  /\ UNCHANGED << seats, bookings, nextId, price, now, swept, sweep, clients,
                  timers, expiry, omitUndefined, rt, catalog >>

\* processPayment: the payment processor is charged booking.totalAmount and the
\* booking is updated with the outcome
ProcessPaymentPay(p, success) ==
  /\ proc[p].op = "processPayment" /\ proc[p].pc = "pay"
  /\ IF success
       THEN /\ bookings' = [bookings EXCEPT ![proc[p].b].paymentStatus = "completed",
                                            ![proc[p].b].bookingStatus = "confirmed",
                                            ![proc[p].b].transactionId = p]
            /\ proc' = [proc EXCEPT ![p].pc = "confirm"]
            /\ ev' = NoEv
       ELSE /\ bookings' = [bookings EXCEPT ![proc[p].b].paymentStatus = "failed"]
            /\ proc' = [proc EXCEPT ![p] = IdleProc]
            /\ ev' = Ev("processPayment", "PaymentFailed", proc[p].b, 0)
  /\ UNCHANGED << seats, nextId, price, now, swept, sweep, clients, timers,
                  expiry, omitUndefined, rt, catalog >>

\* BookingRepository.confirmBooking: every seat of the booking must still be
\* reserved for it
CanConfirm(b) ==
  \A s \in bookings[b].seats :
     seats[s].status = "reserved" /\ seats[s].bookingId = b

\* processPayment: confirmBooking, then stopBookingTimer, then the payment.success
\* and booking.confirmed notifications
ProcessPaymentConfirm(p, notified) ==
  /\ proc[p].op = "processPayment" /\ proc[p].pc = "confirm"
  /\ LET b == proc[p].b IN
       IF CanConfirm(b)
         THEN /\ seats' = [s \in SeatIds |->
                             IF s \in bookings[b].seats
                               THEN [status |-> "booked", bookingId |-> b,
                                     expiresAt |-> NoDate]
                               ELSE seats[s]]
              /\ timers' = StopBookingTimer(proc[p].user, b)
              /\ ev' = Ev("processPayment",
                          IF notified THEN "ok" ELSE "NotifyFailed", b, 0)
         ELSE /\ ev' = Ev("processPayment", "Conflict", b, 0)
              /\ UNCHANGED << seats, timers >>
  /\ proc' = [proc EXCEPT ![p] = IdleProc]
  /\ rt' = LET r == IF CanConfirm(proc[p].b)
                         THEN StopTimeouts(rt, proc[p].user, proc[p].b) ELSE rt
           IN IF ev'.res = "ok"
                THEN Emit(r, {BookingMsg(rt, "BOOKING_CONFIRMED",
                                         bookings[proc[p].b].showtimeId)})
                ELSE r
  /\ UNCHANGED << bookings, nextId, price, now, swept, sweep, clients, expiry,
                  omitUndefined, catalog >>

\* an owner check that lets every caller through
AnyCaller(doc, u) == TRUE

\* cancelBooking: booking.userId.toString() === userId
IsOwner(doc, u) == doc.userId = u

\* a cutoff that also refuses the request made exactly at the deadline
TooLateAtDeadline(startTime, t) == t >= startTime - CANCEL_CUTOFF_MINUTES

\* cancelBooking: new Date() > startTime - 3 hours
TooLate(startTime, t) == t > startTime - CANCEL_CUTOFF_MINUTES

\* cancelBooking: booking.paymentStatus === 'completed' && booking.transactionId
NeedsRefund(doc) == doc.paymentStatus = "completed" /\ doc.transactionId # 0

\* cancelBooking: load the booking, the owner check, the showtime load and the
\* cutoff; without a refund to mark, stopBookingTimer follows at once
CancelBookingLoad(p, b, u) ==
  /\ proc[p].op = "idle"
  /\ IF ~bookings[b].exists
       THEN /\ ev' = Ev("cancelBooking", "NotFound", b, 0)
            /\ UNCHANGED << proc, timers >>
       ELSE IF ~IsOwner(bookings[b], u)
         THEN /\ ev' = Ev("cancelBooking", "Unauthorized", b, 0)
              /\ UNCHANGED << proc, timers >>
         ELSE IF ~Showtime(bookings[b].showtimeId).exists
           THEN /\ ev' = Ev("cancelBooking", "NotFound", b, 0)
                /\ UNCHANGED << proc, timers >>
           ELSE IF TooLate(Showtime(bookings[b].showtimeId).startTime, now)
             THEN /\ ev' = Ev("cancelBooking", "TooLate", b, 0)
                  /\ UNCHANGED << proc, timers >>
             ELSE /\ proc' = [proc EXCEPT ![p] =
                                [IdleProc EXCEPT
                                   !.op = "cancelBooking",
                                   !.pc = IF NeedsRefund(bookings[b])
                                            THEN "refund" ELSE "cancel",
                                   !.b = b, !.user = u]]
                  /\ timers' = IF NeedsRefund(bookings[b]) THEN timers
                               ELSE StopBookingTimer(u, b)
                  /\ ev' = NoEv
  /\ rt' = IF proc'[p].op = "cancelBooking" /\ ~ NeedsRefund(bookings[b])
             THEN StopTimeouts(rt, u, b) ELSE rt
  /\ UNCHANGED << seats, bookings, nextId, price, now, swept, sweep, clients,
                  expiry, omitUndefined, catalog >>

\* cancelBooking: the refund marking, then stopBookingTimer
CancelBookingRefund(p) ==
  /\ proc[p].op = "cancelBooking" /\ proc[p].pc = "refund"
  /\ bookings' = [bookings EXCEPT ![proc[p].b].paymentStatus = "refunded"]
  /\ timers' = StopBookingTimer(proc[p].user, proc[p].b)
  /\ rt' = StopTimeouts(rt, proc[p].user, proc[p].b)
  /\ proc' = [proc EXCEPT ![p].pc = "cancel"]
  /\ ev' = NoEv
  /\ UNCHANGED << seats, nextId, price, now, swept, sweep, clients, expiry,
                  omitUndefined, catalog >>

\* cancelBooking: BookingRepository.cancelBooking marks the booking cancelled and
\* releases the seats held for it; then the booking.cancelled notification
CancelBookingCancel(p, notified) ==
  /\ proc[p].op = "cancelBooking" /\ proc[p].pc = "cancel"
  /\ LET b == proc[p].b IN
       /\ bookings' = [bookings EXCEPT ![b].bookingStatus = "cancelled"]
       /\ seats' = [s \in SeatIds |->
                      IF /\ s \in bookings[b].seats
                         /\ seats[s].bookingId = b
                         /\ seats[s].status \in {"reserved", "booked"}
                        THEN Avail ELSE seats[s]]
       /\ ev' = Ev("cancelBooking", IF notified THEN "ok" ELSE "NotifyFailed", b, 0)
  /\ proc' = [proc EXCEPT ![p] = IdleProc]
  /\ rt' = IF ev'.res = "ok"
             THEN Emit(rt, {BookingMsg(rt, "BOOKING_CANCELLED",
                                       bookings[proc[p].b].showtimeId)})
             ELSE rt
  /\ UNCHANGED << nextId, price, now, swept, sweep, clients, timers, expiry,
                  omitUndefined, catalog >>

\* ShowtimeService.updateShowtime with a new price table
UpdateShowtimePrice(t) ==
  /\ t # price
  /\ price' = t
  /\ ev' = NoEv
  /\ UNCHANGED << seats, bookings, nextId, now, swept, sweep, clients, timers,
                  expiry, proc, omitUndefined, rt, catalog >>

BookingOps ==
  \/ \E p \in Procs, u \in Users, req \in SUBSET SeatIds :
       CreateBookingStart(p, u, HomeShowtime, req)
  \/ \E p \in Procs : CreateBookingCheck(p)
  \/ \E p \in Procs : CreateBookingHold(p)
  \/ \E p \in Procs : CreateBookingRollback(p)
  \/ \E p \in Procs, notified \in BOOLEAN : CreateBookingPersist(p, notified)
  \/ \E p \in Procs, b \in BookingIds : ProcessPaymentLoad(p, b)
  \/ \E p \in Procs, success \in BOOLEAN : ProcessPaymentPay(p, success)
  \/ \E p \in Procs, notified \in BOOLEAN : ProcessPaymentConfirm(p, notified)

CancelOps ==
  \/ \E p \in Procs, b \in BookingIds, u \in Callers : CancelBookingLoad(p, b, u)
  \/ \E p \in Procs : CancelBookingRefund(p)
  \/ \E p \in Procs, notified \in BOOLEAN : CancelBookingCancel(p, notified)

\* ------------------------------------------- WebSocketManager connections

\* registerClient for a user with no registered connection
Connect(u) ==
  /\ u \notin clients
  /\ clients' = clients \cup {u}
  /\ ev' = NoEv
  /\ UNCHANGED << seats, bookings, nextId, price, now, swept, sweep, timers,
                  expiry, proc, omitUndefined, rt, catalog >>

\* unregisterClient: clears every booking timer of the client
Disconnect(u) ==
  /\ u \in clients
  /\ clients' = clients \ {u}
  /\ timers' = [b \in BookingIds |->
                  IF bookings[b].exists /\ bookings[b].userId = u
                    THEN NoDate ELSE timers[b]]
  /\ rt' = UnregisterTimeouts(rt, u)
  /\ ev' = NoEv
  /\ UNCHANGED << seats, bookings, nextId, price, now, swept, sweep, expiry,
                  proc, omitUndefined, catalog >>

\* ------------------------------------- terminal timer of startBookingTimer

\* the timeout fires: bookingTimers.delete and the findOne {reserved, pending}
TimerFire(b) ==
  /\ timers[b] # NoDate /\ now >= timers[b]
  /\ expiry[b] = "idle"
  /\ timers' = [timers EXCEPT ![b] = NoDate]
  /\ expiry' = [expiry EXCEPT ![b] =
                  IF /\ bookings[b].exists
                     /\ bookings[b].bookingStatus = "reserved"
                     /\ bookings[b].paymentStatus = "pending"
                    THEN "cancel" ELSE "idle"]
  /\ rt' = [rt EXCEPT !.live[b] = @ - 1]
  /\ ev' = NoEv
  /\ UNCHANGED << seats, bookings, nextId, price, now, swept, sweep, clients,
                  proc, omitUndefined, catalog >>

\* Booking.findByIdAndUpdate(bookingId, {bookingStatus: 'cancelled'})
TimerCancelBooking(b) ==
  /\ expiry[b] = "cancel"
  /\ bookings' = [bookings EXCEPT ![b].bookingStatus = "cancelled"]
  /\ expiry' = [expiry EXCEPT ![b] = "release"]
  /\ ev' = NoEv
  /\ UNCHANGED << seats, nextId, price, now, swept, sweep, clients, timers,
                  proc, omitUndefined, rt, catalog >>

\* Seat.updateMany({bookingId}, {status: 'available', $unset})
TimerReleaseSeats(b) ==
  /\ expiry[b] = "release"
  /\ seats' = [s \in SeatIds |-> IF seats[s].bookingId = b THEN Avail ELSE seats[s]]
  /\ expiry' = [expiry EXCEPT ![b] = "idle"]
  /\ ev' = NoEv
  /\ rt' = Emit(Delivered(rt, bookings[b].userId, b, 0),
               {DirectMsg(rt, "booking_expired", bookings[b].userId, b)})
  /\ UNCHANGED << bookings, nextId, price, now, swept, sweep, clients, timers,
                  proc, omitUndefined, catalog >>

\* ------------------------------------------------------- SeatCleanupJob

\* the seats the query of releaseExpiredSeats returns
ExpiredSeats ==
  {s \in SeatIds : /\ seats[s].status = "reserved"
                   /\ seats[s].expiresAt # NoDate
                   /\ seats[s].expiresAt < now}

\* setInterval tick: releaseExpiredSeats runs its find
SweepStart ==
  /\ sweep.pc = "idle"
  /\ ~swept
  /\ swept' = TRUE
  /\ sweep' = IF ExpiredSeats = {} THEN IdleSweep
              ELSE [pc |-> "run", todo |-> ExpiredSeats]
  /\ ev' = NoEv
  /\ UNCHANGED << seats, bookings, nextId, price, now, clients, timers, expiry,
                  proc, omitUndefined, rt, catalog >>

\* releaseExpiredSeats: updateOne by _id for the next seat of the result
SweepRelease ==
  /\ sweep.pc = "run"
  /\ LET s == Min(sweep.todo) IN
       /\ seats' = [seats EXCEPT ![s] = Avail]
       /\ sweep' = IF sweep.todo = {s} THEN IdleSweep
                   ELSE [pc |-> "run", todo |-> sweep.todo \ {s}]
       /\ ev' = NoEv
  /\ rt' = Emit(rt, {SeatMsg(rt, HomeShowtime)})
  /\ UNCHANGED << bookings, nextId, price, now, swept, clients, timers, expiry,
                  proc, omitUndefined, catalog >>

\* the minutes at which a timer is due or a cleanup pass finds a seat expired
NextTimes ==
  {t \in (now + 1)..MaxTime :
     \/ \E b \in BookingIds : timers[b] = t
     \/ \E x \in rt.countdown : x.at = t
     \/ \E s \in SeatIds : /\ seats[s].expiresAt # NoDate
                           /\ t \in {seats[s].expiresAt,
                                     seats[s].expiresAt + CLEANUP_INTERVAL}}

\* time passes up to the next such minute; the due timers and the cleanup pass
\* of the current minute run first
Tick ==
  /\ swept
  /\ sweep.pc = "idle"
  /\ \A b \in BookingIds :
       /\ expiry[b] = "idle"
       /\ timers[b] = NoDate \/ timers[b] > now
  /\ \A x \in rt.countdown : x.at > now
  /\ NextTimes # {}
  /\ now' = Min(NextTimes)
  /\ swept' = FALSE
  /\ ev' = NoEv
  /\ UNCHANGED << seats, bookings, nextId, price, sweep, clients, timers,
                  expiry, proc, omitUndefined, rt, catalog >>

\* a countdown timeout fires: sendToUser(userId, booking_expiring, minutesLeft)
CountdownFire(x) ==
  /\ x \in rt.countdown
  /\ now >= x.at
  /\ LET u == bookings[x.b].userId
         r == [rt EXCEPT !.countdown = @ \ {x}]
     IN /\ rt' = Emit(Delivered(r, u, x.b, x.left),
                      {DirectMsg(rt, "booking_expiring", u, x.b)})
        /\ ev' = Ev("booking_expiring",
                    IF UserSockets(rt, u) # {} THEN "sent" ELSE "dropped",
                    x.b, x.left)
  /\ UNCHANGED << seats, bookings, nextId, price, now, swept, sweep, clients,
                  timers, expiry, proc, omitUndefined, catalog >>

\* startBookingTimer(userId, bookingId, N) called for the hold of a booking;
\* arg is the number of timers its stopBookingTimer cleared
StartTimerCall(b, N) ==
  /\ bookings[b].exists
  /\ bookings[b].bookingStatus = "reserved"
  /\ LET u == bookings[b].userId IN
       /\ timers' = StartBookingTimerFor(u, b, N)
       /\ rt' = Emit(StartTimeouts(rt, u, b, N),
                     {DirectMsg(rt, "booking_reserved", u, b)})
       /\ ev' = Ev("startBookingTimer",
                   IF u \in clients THEN "true" ELSE "false", b,
                   IF u \in clients /\ timers[b] # NoDate THEN 1 ELSE 0)
  /\ UNCHANGED << seats, bookings, nextId, price, now, swept, sweep, clients,
                  expiry, proc, omitUndefined, catalog >>

\* stopBookingTimer(userId, bookingId)
StopTimerCall(u, b) ==
  /\ timers' = StopBookingTimer(u, b)
  /\ rt' = StopTimeouts(rt, u, b)
  /\ ev' = Ev("stopBookingTimer",
              IF u \in clients /\ timers[b] # NoDate THEN "true" ELSE "false",
              b, u)
  /\ UNCHANGED << seats, bookings, nextId, price, now, swept, sweep, clients,
                  expiry, proc, omitUndefined, catalog >>

Background ==
  \/ \E u \in Users : Connect(u)
  \/ \E u \in Users : Disconnect(u)
  \/ \E b \in BookingIds : TimerFire(b)
  \/ \E b \in BookingIds : TimerCancelBooking(b)
  \/ \E b \in BookingIds : TimerReleaseSeats(b)
  \/ SweepStart
  \/ SweepRelease
  \/ Tick

\* ------------------------------------------- WebSocketManager connections

\* the connection handler's checks: a token is present, it verifies, and the
\* payload carries an id
Authenticated(tok) ==
  /\ tok # "absent"
  /\ verifyAccessToken(tok) # "null"
  /\ DecodedId(verifyAccessToken(tok)) # NoUser

\* wss.on('connection'): the token checks, registerClient and the greeting.
\* registerClient closes the user's previous socket and keeps its timers.
WsConnect(c, tok) ==
  /\ rt.ws[c].state = "closed"
  /\ IF ~ Authenticated(tok)
       THEN /\ ev' = Ev("connect",
                        IF tok = "absent" THEN "AuthRequired" ELSE "InvalidToken",
                        NoBooking, c)
            /\ UNCHANGED << rt, clients >>
       ELSE LET u == DecodedId(verifyAccessToken(tok))
                old == rt.client[u]
                closing == IF old # 0 /\ rt.ws[old].state = "open" THEN {old} ELSE {}
                reg == [rt EXCEPT
                          !.ws = [d \in WsConns |->
                                    IF d = c THEN [state |-> "open", user |-> u]
                                    ELSE IF d \in closing
                                      THEN [state |-> "closing", user |-> u]
                                      ELSE rt.ws[d]],
                          !.client[u] = c]
            IN /\ rt' = Emit(reg, {Msg("connected", u, {c})})
               /\ clients' = clients \cup {u}
               /\ ev' = Ev("connect", "ok", NoBooking, c)
  /\ UNCHANGED << seats, bookings, nextId, price, now, swept, sweep, timers,
                  expiry, proc, omitUndefined, catalog >>

\* ws.on('close') of a socket that was registered: unregisterClient(userId)
\* clears the timers of whichever client the user has and deletes it
WsClose(c) ==
  /\ rt.ws[c].state # "closed"
  /\ LET u == rt.ws[c].user IN
       /\ rt' = [UnregisterTimeouts(rt, u) EXCEPT !.ws[c] = ClosedWs,
                                                  !.client[u] = 0]
       /\ clients' = clients \ {u}
       /\ timers' = IF u \in clients
                      THEN [b \in BookingIds |->
                              IF bookings[b].exists /\ bookings[b].userId = u
                                THEN NoDate ELSE timers[b]]
                      ELSE timers
  /\ ev' = NoEv
  /\ UNCHANGED << seats, bookings, nextId, price, now, swept, sweep, expiry,
                  proc, omitUndefined, catalog >>

\* io.on('connection') of the manager with rooms: no token is looked at
IoConnect(k, tok) ==
  /\ rt.manager = "rooms"
  /\ ~ rt.io[k].open
  /\ rt' = [rt EXCEPT !.io[k] = [open |-> TRUE, token |-> tok, rooms |-> {}]]
  /\ ev' = Ev("io_connect", "ok", NoBooking, k)
  /\ UNCHANGED << seats, bookings, nextId, price, now, swept, sweep, clients,
                  timers, expiry, proc, omitUndefined, catalog >>

\* JOIN_SHOWTIME_ROOM
IoJoin(k, sid) ==
  /\ rt.io[k].open
  /\ sid \notin rt.io[k].rooms
  /\ rt' = [rt EXCEPT !.io[k].rooms = @ \cup {sid}]
  /\ ev' = NoEv
  /\ UNCHANGED << seats, bookings, nextId, price, now, swept, sweep, clients,
                  timers, expiry, proc, omitUndefined, catalog >>

\* LEAVE_SHOWTIME_ROOM
IoLeave(k, sid) ==
  /\ rt.io[k].open
  /\ sid \in rt.io[k].rooms
  /\ rt' = [rt EXCEPT !.io[k].rooms = @ \ {sid}]
  /\ ev' = NoEv
  /\ UNCHANGED << seats, bookings, nextId, price, now, swept, sweep, clients,
                  timers, expiry, proc, omitUndefined, catalog >>

\* disconnect: socket.io takes the socket out of its rooms
IoDisconnect(k) ==
  /\ rt.io[k].open
  /\ rt' = [rt EXCEPT !.io[k] = ClosedIo]
  /\ ev' = NoEv
  /\ UNCHANGED << seats, bookings, nextId, price, now, swept, sweep, clients,
                  timers, expiry, proc, omitUndefined, catalog >>

\* UserController.getSocketToken: generateWebSocketToken for the authenticated
\* user
GetSocketToken(u) ==
  /\ u \in Users
  /\ "ws1" \notin rt.issued
  /\ rt' = [rt EXCEPT !.issued = @ \cup {"ws1"}]
  /\ ev' = Ev("getSocketToken", "ok", NoBooking, u)
  /\ UNCHANGED << seats, bookings, nextId, price, now, swept, sweep, clients,
                  timers, expiry, proc, omitUndefined, catalog >>

SocketOps ==
  \/ \E c \in WsConns, tok \in Tokens : WsConnect(c, tok)
  \/ \E c \in WsConns : WsClose(c)
  \/ \E k \in IoSockets, tok \in Tokens : IoConnect(k, tok)
  \/ \E k \in IoSockets, sid \in Topics : IoJoin(k, sid)
  \/ \E k \in IoSockets, sid \in Topics : IoLeave(k, sid)
  \/ \E k \in IoSockets : IoDisconnect(k)

\* ------------------------------------------------------- ShowtimeService

\* getShowtimeSeats: the status shown for a seat, seat.status || 'available'
ShowtimeSeatStatus(s) == seats[s].status

\* endTime = startTime + movie.duration + 30
EndTime(start) == start + MovieDuration + CLEANING_MINUTES

\* the unique index {screenId, startTime, endTime} over active showtimes:
\* whether a document with these times collides with another active one
IndexCollision(id, start, end) ==
  \E j \in ShowIds \ {id} :
     /\ catalog.shows[j].exists /\ catalog.shows[j].isActive
     /\ catalog.shows[j].startTime = start
     /\ catalog.shows[j].endTime = end

\* Seat.find({screenId, isActive: true}): how many documents of the screen
\* sit at a position, whatever showtime they belong to
Found(s) ==
  LET RECURSIVE Sum(_)
      Sum(O) == IF O = {} THEN 0
                ELSE LET o == CHOOSE x \in O : TRUE
                     IN catalog.docs[o][s] + Sum(O \ {o})
  IN Sum(DocOwners)

\* the showtime _id the next create gets
NextShow ==
  Min({i \in ShowIds : /\ ~ catalog.shows[i].exists
                       /\ \A s \in SeatIds : catalog.docs[i][s] = 0}
      \cup {MaxShows + 1})

\* createShowtime: the end time, the create under the unique index, then
\* initializeSeatAvailability. insertMany stops at the first document that
\* collides in the index {showtimeId, row, seatNumber}; the documents before
\* it, in the order find returned them, stay inserted.
CreateShowtime(start, P) ==
  /\ NextShow <= MaxShows
  /\ LET id == NextShow
         end == EndTime(start)
     IN IF IndexCollision(id, start, end)
          THEN /\ ev' = Ev("createShowtime", "DuplicateKey", NoBooking, 0)
               /\ P = {}
               /\ UNCHANGED catalog
          ELSE LET created == [catalog.shows EXCEPT ![id] =
                                 [exists |-> TRUE, isActive |-> TRUE,
                                  startTime |-> start, endTime |-> end]]
               IN IF \A s \in SeatIds : Found(s) <= 1
                    THEN /\ P = {s \in SeatIds : Found(s) = 1}
                         /\ catalog' = [shows |-> created,
                                        docs |-> [catalog.docs EXCEPT ![id] =
                                                    [s \in SeatIds |-> Found(s)]]]
                         /\ ev' = Ev("createShowtime", "ok", id, 0)
                    ELSE /\ P # {}
                         /\ \E s \in P : Found(s) >= 2
                         /\ catalog' = [shows |-> created,
                                        docs |-> [catalog.docs EXCEPT ![id] =
                                                    [s \in SeatIds |->
                                                       IF s \in P THEN 1 ELSE 0]]]
                         /\ ev' = Ev("createShowtime", "DuplicateKey", id,
                                     Cardinality(P))
  /\ UNCHANGED << seats, bookings, nextId, price, now, swept, sweep, clients,
                  timers, expiry, proc, omitUndefined, rt >>

\* updateShowtime with a new startTime: the end time is recomputed and the
\* document updated under the unique index
UpdateShowtime(id, start) ==
  /\ catalog.shows[id].exists
  /\ IF catalog.shows[id].isActive /\ IndexCollision(id, start, EndTime(start))
       THEN /\ ev' = Ev("updateShowtime", "DuplicateKey", id, 0)
            /\ UNCHANGED catalog
       ELSE /\ catalog' = [catalog EXCEPT !.shows[id].startTime = start,
                                          !.shows[id].endTime = EndTime(start)]
            /\ ev' = Ev("updateShowtime", "ok", id, 0)
  /\ UNCHANGED << seats, bookings, nextId, price, now, swept, sweep, clients,
                  timers, expiry, proc, omitUndefined, rt >>

\* deleteShowtime: deactivated when a seat of it is reserved or booked,
\* deleted otherwise; its seat documents stay
DeleteShowtime(id, held) ==
  /\ catalog.shows[id].exists
  /\ catalog' = IF held THEN [catalog EXCEPT !.shows[id].isActive = FALSE]
                ELSE [catalog EXCEPT !.shows[id] = NoShow]
  /\ ev' = Ev("deleteShowtime", "ok", id, 0)
  /\ UNCHANGED << seats, bookings, nextId, price, now, swept, sweep, clients,
                  timers, expiry, proc, omitUndefined, rt >>

ShowtimeOps ==
  \/ \E start \in StartTimes, P \in SUBSET SeatIds : CreateShowtime(start, P)
  \/ \E id \in ShowIds, start \in StartTimes : UpdateShowtime(id, start)
  \/ \E id \in ShowIds, held \in BOOLEAN : DeleteShowtime(id, held)

\* the calls on the booking timers and the countdown callbacks
TimerOps ==
  \/ \E b \in BookingIds, N \in {2, 10} : StartTimerCall(b, N)
  \/ \E u \in Users, b \in BookingIds : StopTimerCall(u, b)
  \/ \E x \in rt.countdown : CountdownFire(x)

Next ==
  \/ SeatOps \/ BookingOps \/ CancelOps \/ Background \/ SocketOps
  \/ ShowtimeOps \/ TimerOps

Spec == Init /\ [][Next]_vars

\* the seat endpoints and SeatService calls racing booking creation, within
\* one minute
CreateOps ==
  \/ \E p \in Procs, u \in Users, req \in SUBSET SeatIds :
       CreateBookingStart(p, u, HomeShowtime, req)
  \/ \E p \in Procs : CreateBookingCheck(p)
  \/ \E p \in Procs : CreateBookingHold(p)
  \/ \E p \in Procs : CreateBookingRollback(p)
  \/ \E p \in Procs, notified \in BOOLEAN : CreateBookingPersist(p, notified)

NextSeats == SeatOps \/ CreateOps

\* no socket connects in the specifications of the seat and booking
\* operations, so one manager stands for both; no WebSocket token is presented
\* in them, so WS_TOKEN_SECRET is left unset
InitSeats == Init /\ rt.manager = "rooms" /\ rt.env = ""

SpecSeats == InitSeats /\ [][NextSeats]_vars

\* concurrent reservation attempts alone: reserveSeat and createBooking
NextReserve ==
  \/ \E p \in Procs, s \in SeatIds : ReserveSeatFind(p, s)
  \/ \E p \in Procs : ReserveSeatSave(p)
  \/ CreateOps

SpecReserve == InitSeats /\ [][NextReserve]_vars

\* the booking orchestrator alone: no direct seat-level calls
InitBooking == InitSeats /\ ~omitUndefined

NextBooking == BookingOps \/ Background

SpecBooking == InitBooking /\ [][NextBooking]_vars

\* cancellation racing the bookings of one seat, successful payments, the
\* timers and the cleanup job
NextCancel ==
  \/ \E p \in Procs, u \in Users :
       CreateBookingStart(p, u, HomeShowtime, {Min(SeatIds)})
  \/ \E p \in Procs : CreateBookingCheck(p)
  \/ \E p \in Procs : CreateBookingHold(p)
  \/ \E p \in Procs : CreateBookingRollback(p)
  \/ \E p \in Procs : CreateBookingPersist(p, TRUE)
  \/ \E p \in Procs, b \in BookingIds : ProcessPaymentLoad(p, b)
  \/ \E p \in Procs : ProcessPaymentPay(p, TRUE)
  \/ \E p \in Procs : ProcessPaymentConfirm(p, TRUE)
  \/ CancelOps
  \/ Background

SpecCancel == InitBooking /\ [][NextCancel]_vars

\* createBooking over every kind of request: missing fields, every showtime,
\* empty seat lists, unknown seats and seats of another showtime
NextValidate ==
  \/ \E p \in Procs, u \in Users \cup {NoUser}, sid \in ShowtimeIds,
        req \in SUBSET RequestSeatIds :
       CreateBookingStart(p, u, sid, req)
  \/ \E p \in Procs : CreateBookingCheck(p)
  \/ \E p \in Procs : CreateBookingHold(p)
  \/ \E p \in Procs : CreateBookingRollback(p)
  \/ \E p \in Procs, notified \in BOOLEAN : CreateBookingPersist(p, notified)
  \/ Background

SpecValidate == InitBooking /\ [][NextValidate]_vars

\* bookings priced and paid while the showtime's price table is edited
NextPricing ==
  \/ BookingOps
  \/ \E t \in PriceTables : UpdateShowtimePrice(t)

SpecPricing == InitBooking /\ [][NextPricing]_vars

\* the ws sockets of one user, with the bookings of one seat, their timers and
\* the cleanup job
NextDirect ==
  \/ \E c \in WsConns, tok \in Tokens : WsConnect(c, tok)
  \/ \E c \in WsConns : WsClose(c)
  \/ \E p \in Procs, u \in Users :
       CreateBookingStart(p, u, HomeShowtime, {Min(SeatIds)})
  \/ \E p \in Procs : CreateBookingCheck(p)
  \/ \E p \in Procs : CreateBookingHold(p)
  \/ \E p \in Procs : CreateBookingRollback(p)
  \/ \E p \in Procs : CreateBookingPersist(p, TRUE)
  \/ \E x \in rt.countdown : CountdownFire(x)
  \/ \E b \in BookingIds : TimerFire(b)
  \/ \E b \in BookingIds : TimerCancelBooking(b)
  \/ \E b \in BookingIds : TimerReleaseSeats(b)
  \/ SweepStart
  \/ SweepRelease
  \/ Tick

SpecDirect == InitBooking /\ [][NextDirect]_vars

\* the sockets of both managers, with releaseSeat and bookSeat on one seat as
\* the source of seat events
InitSockets == Init /\ ~omitUndefined /\ rt.env = ""

NextSockets ==
  \/ SocketOps
  \/ ReleaseSeat(Min(SeatIds))
  \/ BookSeat(Min(SeatIds), Min(BookingIds))

SpecSockets == InitSockets /\ [][NextSockets]_vars

\* the ws manager under every configuration of the signing secrets: clients
\* fetch a WebSocket token and connect with whatever token they hold
InitTokens == Init /\ ~omitUndefined /\ rt.manager = "broadcast"

NextTokens ==
  \/ \E u \in Users : GetSocketToken(u)
  \/ \E c \in WsConns, tok \in WsTokens :
       (tok = "ws1" => tok \in rt.issued) /\ WsConnect(c, tok)
  \/ \E c \in WsConns : WsClose(c)

SpecTokens == InitTokens /\ [][NextTokens]_vars

\* the hold lengths startBookingTimer is called with besides the default
HoldMinutes == {2, 10}

\* no timeout of booking b is pending and no event of b reached its owner
NothingScheduled(b) ==
  /\ timers[b] = NoDate
  /\ expiry[b] = "idle"
  /\ rt.hist[b] = << >>
  /\ \A x \in rt.countdown : x.b # b

\* the one request slot and socket of the specifications of a single hold
Slot == Min(Procs)
Conn == Min(WsConns)

\* one user on one socket books one seat once
OneHold ==
  \/ WsConnect(Conn, "user1")
  \/ WsClose(Conn)
  \/ \E u \in Users :
       nextId = Min(BookingIds) /\ CreateBookingStart(Slot, u, HomeShowtime, {Min(SeatIds)})
  \/ CreateBookingCheck(Slot)
  \/ CreateBookingHold(Slot)
  \/ CreateBookingPersist(Slot, TRUE)

\* the callbacks of the timeouts, the cleanup job and the clock
TimeoutSteps ==
  \/ \E x \in rt.countdown : CountdownFire(x)
  \/ \E b \in BookingIds : TimerFire(b)
  \/ \E b \in BookingIds : TimerCancelBooking(b)
  \/ \E b \in BookingIds : TimerReleaseSeats(b)
  \/ SweepStart
  \/ SweepRelease
  \/ Tick

\* the booking timers of one hold: the booking is paid, fails to be paid, is
\* cancelled or runs out, with startBookingTimer called once per hold and
\* stopBookingTimer called at any time
NextTimers ==
  \/ OneHold
  \/ \E b \in BookingIds : ProcessPaymentLoad(Slot, b)
  \/ \E success \in BOOLEAN : ProcessPaymentPay(Slot, success)
  \/ ProcessPaymentConfirm(Slot, TRUE)
  \/ \E b \in BookingIds, u \in Users : CancelBookingLoad(Slot, b, u)
  \/ CancelBookingRefund(Slot)
  \/ CancelBookingCancel(Slot, TRUE)
  \/ \E b \in BookingIds, N \in HoldMinutes :
       NothingScheduled(b) /\ StartTimerCall(b, N)
  \/ \E u \in Users, b \in BookingIds : StopTimerCall(u, b)
  \/ TimeoutSteps

SpecTimers == InitBooking /\ [][NextTimers]_vars

\* startBookingTimer called again and again for one unpaid hold, for a client
\* that registers and unregisters
NextRestart ==
  \/ \E u \in Users : Connect(u)
  \/ \E u \in Users : Disconnect(u)
  \/ \E u \in Users :
       nextId = Min(BookingIds) /\ CreateBookingStart(Slot, u, HomeShowtime, {Min(SeatIds)})
  \/ CreateBookingCheck(Slot)
  \/ CreateBookingHold(Slot)
  \/ CreateBookingPersist(Slot, TRUE)
  \/ \E b \in BookingIds, N \in HoldMinutes : StartTimerCall(b, N)
  \/ \E u \in Users, b \in BookingIds : StopTimerCall(u, b)
  \/ \E b \in BookingIds : TimerFire(b)
  \/ \E b \in BookingIds : TimerCancelBooking(b)
  \/ \E b \in BookingIds : TimerReleaseSeats(b)
  \/ SweepStart
  \/ SweepRelease
  \/ Tick

SpecRestart == InitBooking /\ [][NextRestart]_vars

\* stopBookingTimer called at any time, by anyone, for the bookings of two
\* seats
NextStop ==
  \/ \E u \in Users : Connect(u)
  \/ \E u \in Users : Disconnect(u)
  \/ \E p \in Procs, u \in Users, s \in SeatIds :
       CreateBookingStart(p, u, HomeShowtime, {s})
  \/ \E p \in Procs : CreateBookingCheck(p)
  \/ \E p \in Procs : CreateBookingHold(p)
  \/ \E p \in Procs : CreateBookingRollback(p)
  \/ \E p \in Procs : CreateBookingPersist(p, TRUE)
  \/ \E u \in Callers, b \in BookingIds : StopTimerCall(u, b)
  \/ \E b \in BookingIds : TimerFire(b)
  \/ \E b \in BookingIds : TimerCancelBooking(b)
  \/ \E b \in BookingIds : TimerReleaseSeats(b)
  \/ SweepStart
  \/ SweepRelease
  \/ Tick

SpecStop == InitBooking /\ [][NextStop]_vars

\* the showtimes of one screen
SpecShowtimes == InitBooking /\ [][ShowtimeOps]_vars

\* a hold that runs out: bookings of one seat that are never paid, room
\* subscribers, the timers and the cleanup job. Timers, the cleanup job, the
\* clock and the steps of a request in flight always get their turn; clients
\* connect, subscribe and book as they please.
ServerSteps ==
  \/ \E p \in Procs : CreateBookingCheck(p)
  \/ \E p \in Procs : CreateBookingHold(p)
  \/ \E p \in Procs : CreateBookingRollback(p)
  \/ \E p \in Procs : CreateBookingPersist(p, TRUE)
  \/ \E b \in BookingIds : TimerFire(b)
  \/ \E b \in BookingIds : TimerCancelBooking(b)
  \/ \E b \in BookingIds : TimerReleaseSeats(b)
  \/ SweepStart
  \/ SweepRelease
  \/ Tick

NextExpiry ==
  \/ \E p \in Procs, u \in Users :
       CreateBookingStart(p, u, HomeShowtime, {Min(SeatIds)})
  \/ \E u \in Users : Connect(u)
  \/ \E u \in Users : Disconnect(u)
  \/ \E k \in IoSockets : IoConnect(k, "user1")
  \/ \E k \in IoSockets : IoJoin(k, HomeShowtime)
  \/ \E k \in IoSockets : IoLeave(k, HomeShowtime)
  \/ \E k \in IoSockets : IoDisconnect(k)
  \/ ServerSteps

SpecExpiry == InitBooking /\ [][NextExpiry]_vars /\ WF_vars(ServerSteps)

\* ------------------------------------------------------------------ claims

\* C1: no double booking. A reservation attempt (reserveSeat's save, or a hold of
\* createBooking) succeeds on a seat only when the seat is available at that
\* moment, so of two attempts on the same seat at most one succeeds.
C1_NoDoubleBooking ==
  [][\A p \in Procs :
       /\ (proc[p].op = "reserveSeat" /\ proc[p].pc = "save"
             /\ proc'[p].op = "idle")
            => \A s \in proc[p].req : seats[s].status = "available"
       /\ (proc[p].op = "createBooking" /\ proc'[p].op = "createBooking")
            => \A s \in proc'[p].held \ proc[p].held :
                 seats[s].status = "available"]_vars

\* the booking ids that exist or that a createBooking in flight has drawn
LiveBookings ==
  {b \in BookingIds :
     \/ bookings[b].exists
     \/ \E p \in Procs : proc[p].op = "createBooking" /\ proc[p].b = b}

\* the step is made by a request, timer or cleanup pass acting for booking b
ActsFor(b) ==
  \/ \E p \in Procs : proc[p].b = b /\ proc'[p] # proc[p]
  \/ expiry'[b] # expiry[b]
  \/ sweep' # sweep

\* C2: hold exclusivity. While a seat is reserved under booking B, a step
\* changes its status or bookingId only when it is made for B (its own request,
\* its expiry timer) or by the cleanup pass.
C2_HoldExclusivity ==
  [][\A s \in SeatIds :
       ( /\ seats[s].status = "reserved"
         /\ seats[s].bookingId \in LiveBookings
         /\ \/ seats'[s].status # seats[s].status
            \/ seats'[s].bookingId # seats[s].bookingId )
          => ActsFor(seats[s].bookingId)]_vars

\* the due timers and the cleanup pass of the current minute have run
PassDone ==
  /\ swept
  /\ sweep.pc = "idle"
  /\ \A b \in BookingIds :
       expiry[b] = "idle" /\ (timers[b] = NoDate \/ timers[b] > now)

\* C3: expiry correctness. Once the cleanup pass one interval after the deadline
\* has run, a seat reserved until that deadline is no longer reserved, and a
\* booking created 15 minutes + one interval ago that was never confirmed is
\* cancelled.
C3_ExpiryCorrectness ==
  PassDone =>
    /\ \A s \in SeatIds :
         ~ ( /\ seats[s].status = "reserved"
             /\ seats[s].expiresAt # NoDate
             /\ now >= seats[s].expiresAt + CLEANUP_INTERVAL )
    /\ \A b \in BookingIds :
         ( /\ bookings[b].exists
           /\ bookings[b].bookingStatus # "confirmed"
           /\ now >= bookings[b].bookedAt + BOOKING_TIMEOUT_MINUTES
                       + CLEANUP_INTERVAL
           /\ \A s \in bookings[b].seats :
                ~ (seats[s].status = "reserved" /\ seats[s].bookingId = b) )
            => bookings[b].bookingStatus = "cancelled"

\* every seat is untouched, or was held for booking b and is back to available
RestoredFrom(b) ==
  \A s \in SeatIds :
     \/ seats'[s] = seats[s]
     \/ /\ seats[s].status = "reserved" /\ seats[s].bookingId = b
        /\ seats'[s] = Avail

\* C4: atomic multi-seat hold. A createBooking that fails with seat-unavailable
\* creates no booking and changes no seat other than returning the seats it had
\* itself flipped (all of them available before the call) to available; after it
\* no seat is left held for the booking that was not created.
C4_AtomicMultiSeatHold ==
  /\ [](\A s \in SeatIds :
          /\ seats[s].status = "available" => seats[s] = Avail
          /\ seats[s].bookingId # NoBooking => seats[s].bookingId \in LiveBookings)
  /\ [][\A p \in Procs :
          ( /\ proc[p].op = "createBooking"
            /\ proc'[p].op = "idle"
            /\ ev'.res = "SeatUnavailable" )
             => /\ bookings' = bookings
                /\ RestoredFrom(proc[p].b)
                /\ \A s \in proc[p].req :
                     ~ (proc[p].b # NoBooking /\ seats'[s].bookingId = proc[p].b)]_vars

\* C4 witness: a createBooking lost a seat to a concurrent request after it had
\* flipped another one, failed, and rolled that one back.
W4_RolledBack ==
  /\ ev.op = "createBooking" /\ ev.res = "SeatUnavailable"
  /\ ev.arg >= 1
  /\ ~ bookings[ev.b].exists
  /\ \A s \in SeatIds : seats[s].bookingId # ev.b

\* no request, timer callback or cleanup pass is in flight
Quiescent ==
  /\ \A p \in Procs : proc[p].op = "idle"
  /\ \A b \in BookingIds : expiry[b] = "idle"
  /\ sweep.pc = "idle"

\* C5: confirm versus expiry race. Up to the minute of the hold deadline, once
\* processPayment and the expiry timer have both finished, a confirmed booking
\* has all its seats booked for it, and a cancelled booking holds none of its
\* seats.
C5_ConfirmVersusExpiry ==
  \A b \in BookingIds :
     ( /\ bookings[b].exists
       /\ Quiescent
       /\ now <= bookings[b].bookedAt + BOOKING_TIMEOUT_MINUTES )
        => /\ bookings[b].bookingStatus = "confirmed"
              => \A s \in bookings[b].seats :
                   seats[s].status = "booked" /\ seats[s].bookingId = b
           /\ bookings[b].bookingStatus = "cancelled"
              => \A s \in bookings[b].seats : seats[s].bookingId # b

\* C6: idempotent release. A step that finds a seat available and leaves it
\* available (a release of an already-available seat) leaves its bookingId and
\* expiresAt as they were.
C6_IdempotentRelease ==
  [][\A s \in SeatIds :
       (seats[s].status = "available" /\ seats'[s].status = "available")
          => seats'[s] = seats[s]]_vars

\* the number of seats of S in a class
CountOf(S, type) == Cardinality({s \in S : seatType(s) = type})

\* the sum of a price table over the seats of S, class by class
PricedAt(S, table) ==
  CountOf(S, "standard") * table.standard
    + CountOf(S, "premium") * table.premium
    + CountOf(S, "vip") * table.vip

\* C7: pricing correctness. A booking is stored with the sum of the price, in
\* the showtime createBooking loaded, of each requested seat's class; the total
\* of an existing booking never changes; processPayment charges the stored
\* total.
C7_PricingCorrectness ==
  [][\A p \in Procs :
       /\ (proc[p].op = "createBooking" /\ proc[p].pc = "persist"
             /\ proc'[p].op = "idle")
            => /\ bookings'[proc[p].b].exists
               /\ bookings'[proc[p].b].seats = proc[p].req
               /\ bookings'[proc[p].b].totalAmount
                    = PricedAt(proc[p].req, proc[p].snap)
       /\ (proc[p].op = "processPayment" /\ proc[p].pc = "pay"
             /\ proc'[p].pc # "pay")
            => proc[p].total = bookings[proc[p].b].totalAmount
       /\ \A b \in BookingIds :
            bookings[b].exists
              => bookings'[b].totalAmount = bookings[b].totalAmount]_vars

\* C7 witness: a booking priced under the initial table was paid after the
\* showtime's price table had changed.
W7_PaidAfterPriceChange ==
  \E b \in BookingIds :
     /\ bookings[b].exists
     /\ bookings[b].paymentStatus = "completed"
     /\ price # InitialPrice
     /\ bookings[b].totalAmount = PricedAt(bookings[b].seats, InitialPrice)
     /\ bookings[b].totalAmount # PricedAt(bookings[b].seats, price)

\* C8: expiresAt is set exactly on the reserved seats.
C8_ExpiresAtIffReserved ==
  \A s \in SeatIds :
     (seats[s].expiresAt # NoDate) <=> (seats[s].status = "reserved")

\* C9: bookingId is set exactly on the reserved and the booked seats.
C9_BookingIdIffHeld ==
  \A s \in SeatIds :
     (seats[s].bookingId # NoBooking)
        <=> (seats[s].status \in {"reserved", "booked"})

\* C10: every seat of a booking in reserved/pending is reserved for it.
C10_ReservedBookingHoldsSeats ==
  \A b \in BookingIds :
     ( /\ bookings[b].exists
       /\ bookings[b].bookingStatus = "reserved"
       /\ bookings[b].paymentStatus = "pending" )
        => \A s \in bookings[b].seats :
             seats[s].status = "reserved" /\ seats[s].bookingId = b

\* the seat is booked for booking b and carries no expiresAt
BookedFor(s, b) ==
  seats'[s] = [status |-> "booked", bookingId |-> b, expiresAt |-> NoDate]

\* C11: payment success. When processPayment returns success for booking B, B is
\* completed and confirmed with that payment's transaction id, every seat of B
\* is booked for B with no expiresAt, and no expiry timer remains for B.
C11_PaymentSuccess ==
  [][\A p \in Procs :
       ( /\ proc[p].op = "processPayment" /\ proc[p].pc = "confirm"
         /\ proc'[p].op = "idle"
         /\ ev'.op = "processPayment" /\ ev'.res = "ok" )
          => LET b == proc[p].b IN
               /\ bookings'[b].paymentStatus = "completed"
               /\ bookings'[b].bookingStatus = "confirmed"
               /\ bookings'[b].transactionId = p
               /\ \A s \in bookings'[b].seats : BookedFor(s, b)
               /\ timers'[b] = NoDate]_vars

\* every seat of booking b is reserved for it and its deadline is still ahead
HoldLive(b) ==
  \A s \in bookings[b].seats :
     /\ seats[s].status = "reserved"
     /\ seats[s].bookingId = b
     /\ seats[s].expiresAt > now

C13_AlreadyProcessed ==
  [][/\ (ev'.op = "processPayment" /\ ev'.res \in {"AlreadyProcessed", "NotFound"})
          => /\ UNCHANGED << bookings, seats, timers, proc >>
             /\ (ev'.res = "NotFound") <=> ~ bookings[ev'.b].exists
     /\ \A p \in Procs :
          (proc[p].op = "idle" /\ proc'[p].op = "processPayment")
             => /\ bookings[proc'[p].b].exists
                /\ bookings[proc'[p].b].paymentStatus # "completed"]_vars

\* C13 witness: a processPayment on a completed booking was refused.
W13_RefusedCompleted ==
  /\ ev.op = "processPayment" /\ ev.res = "AlreadyProcessed"
  /\ bookings[ev.b].paymentStatus = "completed"

\* C14: cancelBooking by a user who is not the owner fails with unauthorized and
\* changes nothing; only the owner's request gets past the owner check.
C14_CancelUnauthorized ==
  [][/\ (ev'.op = "cancelBooking" /\ ev'.res = "Unauthorized")
          => UNCHANGED << bookings, seats, timers, proc >>
     /\ \A p \in Procs :
          (proc[p].op = "idle" /\ proc'[p].op = "cancelBooking")
             => bookings[proc'[p].b].userId = proc'[p].user]_vars

\* C14 witness: another user's cancelBooking on an existing booking was refused.
W14_RefusedStranger ==
  /\ ev.op = "cancelBooking" /\ ev.res = "Unauthorized"
  /\ bookings[ev.b].exists

\* C15: cancellation cutoff. cancelBooking fails with too-late, changing
\* nothing, exactly when less than 3 hours remain before the start; a request
\* made 3 hours or more before the start gets past the cutoff.
C15_CancelCutoff ==
  [][/\ (ev'.op = "cancelBooking" /\ ev'.res = "TooLate")
          => /\ UNCHANGED << bookings, seats, timers, proc >>
             /\ now > HomeStart - CANCEL_CUTOFF_MINUTES
     /\ \A p \in Procs :
          (proc[p].op = "idle" /\ proc'[p].op = "cancelBooking")
             => now <= HomeStart - CANCEL_CUTOFF_MINUTES]_vars

\* C15 witness: the owner's cancelBooking was refused as too late.
W15_RefusedTooLate ==
  /\ ev.op = "cancelBooking" /\ ev.res = "TooLate"
  /\ bookings[ev.b].exists
  /\ now > HomeStart - CANCEL_CUTOFF_MINUTES

\* C16: after a successful cancelBooking the booking is cancelled, it is
\* refunded exactly when its payment had been completed, none of its seats is
\* still held for it (each seat it held is available with no bookingId and no
\* expiresAt), and no expiry timer remains for it.
C16_CancelSuccess ==
  [][\A p \in Procs :
       ( /\ proc[p].op = "cancelBooking" /\ proc[p].pc = "cancel"
         /\ proc'[p].op = "idle"
         /\ ev'.res = "ok" )
          => LET b == proc[p].b IN
               /\ bookings'[b].bookingStatus = "cancelled"
               /\ (bookings'[b].paymentStatus = "refunded")
                    <=> (bookings[b].paymentStatus \in {"completed", "refunded"})
               /\ \A s \in bookings[b].seats :
                    /\ seats'[s].bookingId # b
                    /\ seats[s].bookingId = b => seats'[s] = Avail
               /\ timers'[b] = NoDate]_vars

\* C17: createBooking fails with not-found for a missing showtime, with invalid
\* for an inactive or started one and with missing-fields for an empty userId or
\* seat list, creating no booking, changing no seat and starting no timer; only
\* a complete request for an active showtime that has not started gets past.
C17_CreateValidation ==
  [][/\ ( /\ ev'.op = "createBooking"
          /\ ev'.res \in {"MissingFields", "NotFound", "Invalid"}
          /\ ev'.b = NoBooking )
          => UNCHANGED << bookings, seats, timers, proc, nextId >>
     /\ \A p \in Procs :
          (proc[p].op = "idle" /\ proc'[p].op = "createBooking")
             => /\ proc'[p].user # NoUser
                /\ proc'[p].req # {}
                /\ proc'[p].sid \notin {MissingShowtime, InactiveShowtime}
                /\ proc'[p].sid = EarlyShowtime => now <= EarlyStart
                /\ now <= HomeStart]_vars

\* C17 witness: a createBooking for the early showtime was refused after its
\* start.
W17_RefusedStarted ==
  /\ ev.op = "createBooking" /\ ev.res = "Invalid" /\ ev.b = NoBooking
  /\ now > EarlyStart

\* C18: a failing notification never fails the operation. A createBooking that
\* persisted its booking, a processPayment that booked the seats and a
\* cancelBooking that cancelled the booking all return success.
C18_NotificationFailure ==
  [][\A p \in Procs :
       /\ ( /\ proc[p].op = "createBooking" /\ proc[p].pc = "persist"
            /\ bookings'[proc[p].b].exists )
             => /\ ev'.res = "ok"
                /\ timers' = StartBookingTimer(proc[p].user, proc[p].b)
       /\ ( /\ proc[p].op = "processPayment" /\ proc[p].pc = "confirm"
            /\ proc'[p].op = "idle"
            /\ seats' # seats )
             => ev'.res = "ok"
       /\ ( /\ proc[p].op = "cancelBooking" /\ proc[p].pc = "cancel"
            /\ proc'[p].op = "idle" )
             => ev'.res = "ok"]_vars

\* C19: every persisted booking has a non-empty list of seats of its own
\* showtime, and a rejected createBooking leaves no seat held for the booking
\* that was not created.
C19_BookingSeatList ==
  /\ \A b \in BookingIds :
       bookings[b].exists
          => /\ bookings[b].seats # {}
             /\ bookings[b].seats \subseteq SeatIds
             /\ bookings[b].showtimeId = HomeShowtime
  /\ \A s \in SeatIds :
       seats[s].bookingId # NoBooking => seats[s].bookingId \in LiveBookings

\* C19 witness: a createBooking that named a seat of another showtime had
\* flipped that seat, was refused by the pre-save hook, and rolled it back.
W19_RefusedForeignSeat ==
  /\ ev.op = "createBooking" /\ ev.res = "Invalid"
  /\ ev.b # NoBooking
  /\ ev.arg >= 1
  /\ ~ bookings[ev.b].exists
  /\ \A s \in SeatIds : seats[s].bookingId # ev.b

\* C20: once a booking is confirmed, no step changes its bookingStatus, seat
\* list, total amount or transaction id.
C20_ConfirmedImmutable ==
  [][\A b \in BookingIds :
       bookings[b].bookingStatus = "confirmed"
          => /\ bookings'[b].bookingStatus = "confirmed"
             /\ bookings'[b].seats = bookings[b].seats
             /\ bookings'[b].totalAmount = bookings[b].totalAmount
             /\ bookings'[b].transactionId = bookings[b].transactionId]_vars

\* the open ws sockets of user u
OpenSocketsOf(u) ==
  {c \in WsConns : rt.ws[c].state = "open" /\ rt.ws[c].user = u}

\* the step delivered a message of this type about booking b to exactly these
\* sockets
DeliveredTo(type, b, S) ==
  \E m \in rt'.sent : m.type = type /\ m.about = b /\ m.to = S

\* C21: multiple connections of one user. A direct event for user U
\* (booking_reserved when the booking is created, booking_expired when its
\* timer has released it) is delivered on every open connection of U.
C21_DirectToEveryConnection ==
  [][/\ \A p \in Procs :
          ( /\ proc[p].op = "createBooking" /\ proc[p].pc = "persist"
            /\ bookings'[proc[p].b].exists
            /\ OpenSocketsOf(proc[p].user) # {} )
             => DeliveredTo("booking_reserved", proc[p].b,
                            OpenSocketsOf(proc[p].user))
     /\ \A b \in BookingIds :
          ( /\ expiry[b] = "release" /\ expiry'[b] = "idle"
            /\ OpenSocketsOf(bookings[b].userId) # {} )
             => DeliveredTo("booking_expired", b,
                            OpenSocketsOf(bookings[b].userId))]_vars

SeatEvents == {"SEAT_STATUS_CHANGED", "seats_updated"}

\* C22: topic delivery. A seat-map change of showtime X is delivered to exactly
\* the sockets that joined X's room and have not left it: a step that changes
\* a seat reaches all of them, and a seat event reaches nobody else.
C22_TopicDelivery ==
  [][/\ (seats' # seats /\ RoomSockets(rt, HomeShowtime) # {})
          => \E m \in rt'.sent :
                /\ m.type \in SeatEvents
                /\ m.about = HomeShowtime
                /\ m.to = RoomSockets(rt, HomeShowtime)
     /\ rt'.sent # rt.sent
          => \A m \in rt'.sent :
                m.type \in SeatEvents => m.to = RoomSockets(rt, m.about)]_vars

\* C23: connection authentication. Every registered or connected socket
\* presented a token that verifies and carries a user id; a socket without
\* one is in no room and among the recipients of no event.
C23_AuthenticatedConnections ==
  /\ \A c \in WsConns : rt.ws[c].state # "closed" => rt.ws[c].user \in Users
  /\ \A u \in Users : rt.client[u] # 0 => rt.ws[rt.client[u]].user = u
  /\ \A k \in IoSockets :
       rt.io[k].token # "user1"
          => /\ ~ rt.io[k].open
             /\ rt.io[k].rooms = {}
             /\ \A m \in rt.sent : k \notin m.to

\* booking b was never paid, its deadline has passed and its seats are
\* available again
Lapsed(b) ==
  /\ bookings[b].exists
  /\ bookings[b].paymentStatus = "pending"
  /\ now >= bookings[b].bookedAt + BOOKING_TIMEOUT_MINUTES
  /\ \A s \in bookings[b].seats : seats[s].status = "available"

\* C24: expiry is announced. When a hold has expired without payment and its
\* seats are available again, the subscribers of the showtime's room are
\* eventually sent a seat event of that showtime (or have all left).
C24_ExpiryAnnounced ==
  \A b \in BookingIds :
    [](( Lapsed(b) /\ RoomSockets(rt, HomeShowtime) # {} )
         => <>( \/ RoomSockets(rt, HomeShowtime) = {}
                \/ \E m \in rt.sent :
                      /\ m.type \in SeatEvents
                      /\ m.about = HomeShowtime
                      /\ RoomSockets(rt, HomeShowtime) \subseteq m.to ))

\* the intervals [start, end) of two showtimes overlap
Overlap(x, y) == x.startTime < y.endTime /\ y.startTime < x.endTime

\* C25: no two active showtimes of the screen overlap.
C25_NoOverlappingShowtimes ==
  \A i, j \in ShowIds :
    ( /\ i # j
      /\ catalog.shows[i].exists /\ catalog.shows[i].isActive
      /\ catalog.shows[j].exists /\ catalog.shows[j].isActive )
       => ~ Overlap(catalog.shows[i], catalog.shows[j])

\* C26: seat initialisation. Every createShowtime that creates a showtime,
\* the second and later ones on the screen included, succeeds and leaves the
\* showtime with exactly one seat document per seat of the screen.
C26_SeatInitialisation ==
  [][\A id \in ShowIds :
       (catalog'.shows[id].exists /\ ~ catalog.shows[id].exists)
          => /\ ev'.res = "ok"
             /\ \A s \in SeatIds :
                  catalog'.docs[id][s] = catalog.docs[ScreenSeats][s]]_vars

\* C27: the seat map never shows a logically expired hold as reserved: a seat
\* stored as reserved with expiresAt in the past is shown as available.
C27_ExpiredHoldShownAvailable ==
  \A s \in SeatIds :
    ( /\ seats[s].status = "reserved"
      /\ seats[s].expiresAt # NoDate
      /\ seats[s].expiresAt < now )
       => ShowtimeSeatStatus(s) = "available"

\* C28: confirmation checks the holder. A step sets a seat to booked for
\* booking B only if the seat is reserved with bookingId B at that moment.
C28_ConfirmChecksHolder ==
  [][\A s \in SeatIds :
       (seats'[s].status = "booked" /\ seats'[s] # seats[s])
          => /\ seats[s].status = "reserved"
             /\ seats[s].bookingId = seats'[s].bookingId]_vars

\* C29: the sweeper's write is conditional. The cleanup pass changes a seat
\* only if the seat is, at the moment of the write, reserved with expiresAt in
\* the past.
C29_SweeperWriteConditional ==
  [][\A s \in SeatIds :
       (sweep.pc = "run" /\ sweep' # sweep /\ seats'[s] # seats[s])
          => /\ seats[s].status = "reserved"
             /\ seats[s].expiresAt # NoDate
             /\ seats[s].expiresAt < now]_vars

\* C30: the sweeper cancels the booking. A booking that is still
\* reserved/pending after its deadline, and none of whose seats is held for it
\* any more, eventually stops being reserved.
C30_SweeperCancelsBooking ==
  \A b \in BookingIds :
    ( /\ bookings[b].exists
      /\ bookings[b].bookingStatus = "reserved"
      /\ bookings[b].paymentStatus = "pending"
      /\ now > bookings[b].bookedAt + BOOKING_TIMEOUT_MINUTES
      /\ \A s \in bookings[b].seats : seats[s].bookingId # b )
       ~> (bookings[b].bookingStatus # "reserved")

\* the transitions a seat's status may take
AllowedTransitions ==
  { << "available", "reserved" >>, << "reserved", "booked" >>,
    << "reserved", "available" >>, << "booked", "available" >> }

\* C34: seat state machine. Every change of a seat's status is one of
\* available -> reserved, reserved -> booked, reserved -> available and
\* booked -> available.
C34_SeatTransitions ==
  [][\A s \in SeatIds :
       seats'[s].status # seats[s].status
          => << seats[s].status, seats'[s].status >> \in AllowedTransitions]_vars

\* C36: cancelled is final. A cancelled booking never becomes confirmed and no
\* seat is set to booked for it.
C36_CancelledNeverConfirmed ==
  [][\A b \in BookingIds :
       (bookings[b].exists /\ bookings[b].bookingStatus = "cancelled")
          => /\ bookings'[b].bookingStatus = "cancelled"
             /\ \A s \in SeatIds :
                  (seats'[s].status = "booked" /\ seats'[s].bookingId = b)
                     => seats[s] = seats'[s]]_vars

\* C37: one charge per booking. A successful charge writes its transaction id
\* to the booking; a step writes a transaction id only to a booking that has
\* none yet.
C37_SingleCharge ==
  [][\A b \in BookingIds :
       bookings'[b].transactionId # bookings[b].transactionId
          => bookings[b].transactionId = 0]_vars

\* C38: reconnect. When the close event of a socket that is no longer the
\* user's registered socket is handled, the user stays registered with the
\* newer socket and the timers of their bookings stay scheduled.
C38_ReconnectKeepsRegistration ==
  [][\A c \in WsConns :
       ( /\ rt.ws[c].state # "closed" /\ rt'.ws[c].state = "closed"
         /\ rt.client[rt.ws[c].user] \notin {0, c} )
          => /\ rt'.client[rt.ws[c].user] = rt.client[rt.ws[c].user]
             /\ rt.ws[c].user \in clients'
             /\ timers' = timers
             /\ UserSockets(rt', rt.ws[c].user) = UserSockets(rt, rt.ws[c].user)]_vars

\* C40: a WebSocket token that generateWebSocketToken issued to a user passes
\* the connection authentication while it is unexpired, whatever
\* WS_TOKEN_SECRET is set to.
C40_WsTokenAccepted ==
  ("ws1" \in rt.issued /\ now < WS_TOKEN_MINUTES) => Authenticated("ws1")

\* C31: the hold keeps ticking after a failed payment. When the terminal timer
\* of a booking fires and the booking is still reserved and not paid, whether
\* its payment is pending or has failed, the timer goes on to cancel it.
C31_FailedPaymentStillExpires ==
  [][\A b \in BookingIds :
       ( /\ timers[b] # NoDate /\ timers'[b] = NoDate
         /\ rt'.live[b] < rt.live[b]
         /\ proc' = proc /\ clients' = clients
         /\ bookings[b].bookingStatus = "reserved"
         /\ bookings[b].paymentStatus \in {"pending", "failed"} )
          => expiry'[b] = "cancel"]_vars

\* C32: stopBookingTimer is safe to call. A call for a booking without a
\* timer, or for a user without a registered client, returns false and changes
\* no timer, seat or booking; a call that clears a timer clears that one only.
C32_StopIsSafe ==
  [][ev'.op = "stopBookingTimer"
       => /\ ev'.res \in {"true", "false"}
          /\ UNCHANGED << seats, bookings, expiry, clients >>
          /\ \A b \in BookingIds \ {ev'.b} : timers'[b] = timers[b]
          /\ (ev'.arg \notin clients \/ timers[ev'.b] = NoDate)
               => (ev'.res = "false" /\ timers' = timers)]_vars

\* C32 witness: stopBookingTimer returned false for a booking whose timer has
\* fired, while another booking's timer is pending.
W32_StoppedAfterFiring ==
  /\ ev.op = "stopBookingTimer" /\ ev.res = "false"
  /\ ev.arg \in clients
  /\ bookings[ev.b].exists /\ bookings[ev.b].bookingStatus = "cancelled"
  /\ \E b \in BookingIds \ {ev.b} : timers[b] # NoDate

\* C33: a cancelled expiry stays silent. Once a booking is confirmed or
\* explicitly cancelled and its timer is gone, no booking_expiring and no
\* booking_expired reaches its owner and the terminal callback does not run.
C33_NoEventAfterStop ==
  [][\A b \in BookingIds :
       ( /\ bookings[b].bookingStatus \in {"confirmed", "cancelled"}
         /\ expiry[b] = "idle"
         /\ timers[b] = NoDate )
          => /\ rt'.hist[b] = rt.hist[b]
             /\ expiry'[b] = "idle"]_vars

\* what reached the owner of booking b comes in strictly decreasing
\* minutesLeft, booking_expired (0) last
Decreasing(h) == \A i, j \in 1..Len(h) : i < j => h[i] > h[j]

\* C35: warnings. startBookingTimer for a hold of N minutes sets a warning for
\* exactly the offsets m of 10, 5, 2, 1 with m < N, due N - m minutes later;
\* the owner gets the warnings in strictly decreasing minutesLeft, each before
\* booking_expired, and booking_expired at most once.
C35_Warnings ==
  /\ [](\A b \in BookingIds : Decreasing(rt.hist[b]))
  /\ [][\A b \in BookingIds :
          ( /\ ev'.op \in {"createBooking", "startBookingTimer"}
            /\ ev'.res \in {"ok", "true"}
            /\ ev'.b = b
            /\ bookings'[b].userId \in clients )
             => {x \in rt'.countdown : x.b = b}
                  = {[b |-> b, left |-> m, at |-> timers'[b] - m] :
                       m \in {k \in {10, 5, 2, 1} : k < timers'[b] - now}}]_vars

\* C35 witness: every warning and then booking_expired reached the owner of a
\* booking.
W35_AllWarningsThenExpired ==
  \E b \in BookingIds : rt.hist[b] = << 10, 5, 2, 1, 0 >>

\* C39: one terminal timer per booking. At most one terminal timeout of a
\* booking is pending, it is the one bookingTimers holds, and the terminal
\* callback cancels a booking only while it is reserved.
C39_OneTerminalTimer ==
  /\ [](\A b \in BookingIds :
          /\ rt.live[b] <= 1
          /\ rt.live[b] = 1 <=> timers[b] # NoDate)
  /\ [][\A b \in BookingIds :
          (expiry[b] = "cancel" /\ expiry'[b] = "release")
             => bookings[b].bookingStatus = "reserved"]_vars

\* C39 witness: startBookingTimer was called for a booking that had a timer
\* pending, and the booking has one timer.
W39_Restarted ==
  /\ ev.op = "startBookingTimer" /\ ev.res = "true" /\ ev.arg = 1
  /\ timers[ev.b] # NoDate
====
